---- MODULE Spec2Model ----
(***************************************************************************)
(* Model of stm32plus CdcDevice (lib/include/usb/device/cdc/CdcDevice.h):  *)
(* the USB CDC function driver's pending-command state, its notification   *)
(* endpoint lifecycle, its class setup request classifier and initialise.  *)
(*                                                                         *)
(* Every handler runs to completion on the USB event-dispatch context, so  *)
(* each handler is one action.  The order of what a handler does inside    *)
(* that one invocation (events raised, subscribers run, endpoint           *)
(* primitives called) is kept in `trace`, which is cleared when a handler  *)
(* is entered.                                                             *)
(***************************************************************************)
EXTENDS Integers, Sequences, FiniteSets, TLC

VARIABLES
  _configurationDescriptor, \* the commandEndpoint fragment of TConfigurationDescriptor
  _opCode,                  \* uint8_t
  _commandSize,             \* uint8_t
  _commandBuffer,           \* uint8_t[MAX_COMMAND_EP_PACKET_SIZE], indexed 1..16
  registered,               \* USBD_RegisterClass has linked the class into the SDK
  openEndpoints,            \* endpoint addresses the low-level driver holds open
  trace,                    \* what the last operation did, in program order
  returned,                 \* return value of the last operation ("void" for handlers)
  last,                     \* the input of the last operation
  lastLifecycle,            \* the most recent CLASS_INIT / CLASS_DEINIT delivered
  subscribers,              \* the slots subscribed to UsbEventSender
  alive,                    \* the constructor has run and the destructor has not
  lastH2D                   \* the most recent host-to-device class request with data

vars == <<_configurationDescriptor, _opCode, _commandSize, _commandBuffer,
          registered, openEndpoints, trace, returned, last, lastLifecycle,
          subscribers, alive, lastH2D>>

----------------------------------------------------------------------------
(* Bounds of the model *)

\* number of classes in the Features... template pack
NumFeatures == 2

(* Program constants *)

MAX_COMMAND_EP_PACKET_SIZE == 16
DefaultPollInterval == 16

\* values of the USB device library and of EndpointDescriptor
EndpointDescriptor_IN == 128
EndpointDescriptor_INTERRUPT == 3
USB_REQ_TYPE_MASK == 96
USB_REQ_TYPE_CLASS == 32
DirectionMask == 128

Uint8Mod == 256

----------------------------------------------------------------------------
(* Bit arithmetic on unsigned integers *)

RECURSIVE BitAnd(_, _)
BitAnd(a, b) ==
  IF a = 0 \/ b = 0 THEN 0
  ELSE (IF a % 2 = 1 /\ b % 2 = 1 THEN 1 ELSE 0) + 2 * BitAnd(a \div 2, b \div 2)

RECURSIVE BitOr(_, _)
BitOr(a, b) ==
  IF a = 0 THEN b
  ELSE IF b = 0 THEN a
  ELSE (IF a % 2 = 1 \/ b % 2 = 1 THEN 1 ELSE 0) + 2 * BitOr(a \div 2, b \div 2)

\* assignment of an integer expression to a uint8_t
ToUint8(v) == v % Uint8Mod

COMMAND_EP_ADDRESS == BitOr(EndpointDescriptor_IN, 1)

BufferIndex == 1..MAX_COMMAND_EP_PACKET_SIZE

Min(a, b) == IF a <= b THEN a ELSE b

----------------------------------------------------------------------------
(* Inputs *)

\* SET_LINE_CODING, GET_LINE_CODING
BRequests == {32, 33}

\* class OUT, vendor OUT, standard IN, class IN
BmRequests == {33, 64, 128, 161}

\* the 16-bit wLength of the setup packet
WLengths == {0, 7, 16, 17, 256}

Requests == [bmRequest : BmRequests, bRequest : BRequests, wLength : WLengths]

\* the byte a subscriber writes as response payload
FillBytes == {85, 170}

\* Parameters::cdc_cmd_poll_interval
PollIntervals == {1, DefaultPollInterval}

\* upstream initialisation steps: 1 = Device<TPhy>, 2 = ControlEndpointFeature,
\* 2 + i = the i-th class of Features...
InitSteps == 1..(2 + NumFeatures)

\* event types other than the three onEvent handles
OtherEventTypes == {"CLASS_SOF", "CDC_CONTROL"}

\* indeterminate contents of members the constructor does not set; no path of
\* the driver reads a byte of the buffer before a subscriber has written it,
\* so one pattern stands for the buffer's
UninitBytes == {0, 255}
UninitBuffers == {[i \in BufferIndex |-> 0]}
UninitDescriptors ==
  {[bEndpointAddress |-> b, bmAttributes |-> b, wMaxPacketSize |-> b, bInterval |-> b] :
     b \in {0}}

----------------------------------------------------------------------------
(* The object as a record, so that the methods are operators on it *)

This ==
  [_configurationDescriptor |-> _configurationDescriptor,
   _opCode |-> _opCode,
   _commandSize |-> _commandSize,
   _commandBuffer |-> _commandBuffer,
   registered |-> registered,
   openEndpoints |-> openEndpoints,
   subscribers |-> subscribers,
   delivered |-> FALSE,
   trace |-> <<>>,
   returned |-> "void"]

Commit(s) ==
  /\ _configurationDescriptor' = s._configurationDescriptor
  /\ _opCode' = s._opCode
  /\ _commandSize' = s._commandSize
  /\ _commandBuffer' = s._commandBuffer
  /\ registered' = s.registered
  /\ openEndpoints' = s.openEndpoints
  /\ subscribers' = s.subscribers
  /\ trace' = s.trace
  /\ returned' = s.returned

Call(s, c) == [s EXCEPT !.trace = Append(@, c)]

----------------------------------------------------------------------------
(* Platform primitives, at their interfaces *)

USBD_LL_OpenEP(s, addr, type, mps) ==
  [Call(s, [op |-> "USBD_LL_OpenEP", addr |-> addr, type |-> type, mps |-> mps])
     EXCEPT !.openEndpoints = @ \cup {addr}]

USBD_LL_CloseEP(s, addr) ==
  [Call(s, [op |-> "USBD_LL_CloseEP", addr |-> addr])
     EXCEPT !.openEndpoints = @ \ {addr}]

\* transmits len bytes starting at the buffer; bytes are those of the buffer
\* that exist, len is the length the stack was asked for
USBD_CtlSendData(s, buf, len) ==
  Call(s, [op |-> "USBD_CtlSendData", buf |-> buf, len |-> len,
           bytes |-> SubSeq(s._commandBuffer, 1, Min(len, MAX_COMMAND_EP_PACKET_SIZE))])

USBD_CtlPrepareRx(s, buf, len) ==
  Call(s, [op |-> "USBD_CtlPrepareRx", buf |-> buf, len |-> len])

\* links the class into the SDK; the call record keeps the descriptor as the
\* SDK finds it at that moment
USBD_RegisterClass(s) ==
  [Call(s, [op |-> "USBD_RegisterClass", descriptor |-> s._configurationDescriptor])
     EXCEPT !.registered = TRUE]

\* the slot bound to CdcDevice::onEvent
OnEventSlot == "CdcDevice::onEvent"

insertSubscriber(s, slot) == [s EXCEPT !.subscribers = @ \cup {slot}]

removeSubscriber(s, slot) ==
  [Call(s, [op |-> "removeSubscriber", slot |-> slot]) EXCEPT !.subscribers = @ \ {slot}]

CdcControlEvent(opcode, data, size) ==
  [eventType |-> "CDC_CONTROL", opcode |-> opcode, data |-> data, size |-> size]

\* the concrete device's handler: for an event that references the command
\* buffer it writes the response payload into the bytes of it that exist
Subscriber(s, event, fill) ==
  LET s1 == Call(s, [op |-> "deliver", to |-> "subscriber", event |-> event])
  IN  IF event.eventType = "CDC_CONTROL" /\ event.data = "_commandBuffer"
      THEN [s1 EXCEPT !._commandBuffer =
              [i \in BufferIndex |-> IF i <= event.size THEN fill ELSE @[i]]]
      ELSE s1

----------------------------------------------------------------------------
(* CdcDevice *)

RECURSIVE onEvent(_, _, _)

\* UsbEventSender.raiseEvent: synchronous, in registration order; the driver
\* subscribed itself in its constructor, the concrete device after it
raiseEvent(s, event, fill) ==
  LET s1 == Call(s, [op |-> "raiseEvent", event |-> event])
      s2 == IF OnEventSlot \in s1.subscribers
            THEN onEvent(Call(s1, [op |-> "deliver", to |-> OnEventSlot, event |-> event]),
                         event, fill)
            ELSE s1
  IN  Subscriber(s2, event, fill)

IsClassRequest(request) ==
  BitAnd(request.bmRequest, USB_REQ_TYPE_MASK) = USB_REQ_TYPE_CLASS

IsDeviceToHost(request) ==
  BitAnd(request.bmRequest, DirectionMask) # 0

\* SendResponse noting the command as the host-to-device branch does
SendResponse_NotesCommand(s, request, fill) ==
  USBD_CtlSendData(
    raiseEvent([s EXCEPT !._opCode = ToUint8(request.bRequest),
                         !._commandSize = ToUint8(request.wLength)],
               CdcControlEvent(request.bRequest, "_commandBuffer", request.wLength), fill),
    "_commandBuffer", request.wLength)

\* the device-to-host branch: raise the control event, then send the buffer
SendResponse(s, request, fill) ==
  USBD_CtlSendData(
    raiseEvent(s, CdcControlEvent(request.bRequest, "_commandBuffer", request.wLength), fill),
    "_commandBuffer", request.wLength)

\* PrepareReceive arming the receive with the stored uint8_t size
PrepareReceive_StoredSize(s, request) ==
  USBD_CtlPrepareRx(
    [s EXCEPT !._opCode = ToUint8(request.bRequest),
              !._commandSize = ToUint8(request.wLength)],
    "_commandBuffer", ToUint8(request.wLength))

\* the host-to-device branch: note the command, then arm the data stage
PrepareReceive(s, request) ==
  USBD_CtlPrepareRx(
    [s EXCEPT !._opCode = ToUint8(request.bRequest),
              !._commandSize = ToUint8(request.wLength)],
    "_commandBuffer", request.wLength)

\* NotifyNoData noting the command as the host-to-device branch does
NotifyNoData_NotesCommand(s, request, fill) ==
  raiseEvent([s EXCEPT !._opCode = ToUint8(request.bRequest),
                       !._commandSize = ToUint8(request.wLength)],
             CdcControlEvent(request.bRequest, "nullptr", 0), fill)

\* the branch of a request without data stage
NotifyNoData(s, request, fill) ==
  raiseEvent(s, CdcControlEvent(request.bRequest, "nullptr", 0), fill)

\* onCdcSetup without the test for a class request
onCdcSetup_AnyRequestType(s, event, fill) ==
  LET request == event.request
  IN  IF request.wLength # 0
      THEN IF IsDeviceToHost(request)
           THEN SendResponse(s, request, fill)
           ELSE PrepareReceive(s, request)
      ELSE NotifyNoData(s, request, fill)

\* onCdcSetup testing the direction before the length
onCdcSetup_DirectionFirst(s, event, fill) ==
  LET request == event.request
  IN  IF ~IsClassRequest(request) THEN s
      ELSE IF IsDeviceToHost(request)
      THEN SendResponse(s, request, fill)
      ELSE IF request.wLength # 0
           THEN PrepareReceive(s, request)
           ELSE NotifyNoData(s, request, fill)

onCdcSetup(s, event, fill) ==
  LET request == event.request
  IN  IF ~IsClassRequest(request) THEN s
      ELSE IF request.wLength # 0
      THEN IF IsDeviceToHost(request)
           THEN SendResponse(s, request, fill)
           ELSE PrepareReceive(s, request)
      ELSE NotifyNoData(s, request, fill)

\* onEvent opening the endpoint only when it is not open yet
onEvent_OpenOnce(s, event, fill) ==
  CASE event.eventType = "CLASS_INIT" ->
         IF COMMAND_EP_ADDRESS \in s.openEndpoints THEN s
         ELSE USBD_LL_OpenEP(s, COMMAND_EP_ADDRESS, EndpointDescriptor_INTERRUPT,
                             MAX_COMMAND_EP_PACKET_SIZE)
    [] event.eventType = "CLASS_DEINIT" ->
         USBD_LL_CloseEP(s, COMMAND_EP_ADDRESS)
    [] event.eventType = "CLASS_SETUP" ->
         onCdcSetup(s, event, fill)
    [] OTHER -> s

\* onEvent closing endpoint 1 without the IN bit
onEvent_ClosesOutEndpoint(s, event, fill) ==
  CASE event.eventType = "CLASS_INIT" ->
         USBD_LL_OpenEP(s, COMMAND_EP_ADDRESS, EndpointDescriptor_INTERRUPT,
                        MAX_COMMAND_EP_PACKET_SIZE)
    [] event.eventType = "CLASS_DEINIT" ->
         USBD_LL_CloseEP(s, 1)
    [] event.eventType = "CLASS_SETUP" ->
         onCdcSetup(s, event, fill)
    [] OTHER -> s

\* onEvent clearing the op code in the default case
onEvent_DefaultResets(s, event, fill) ==
  CASE event.eventType = "CLASS_INIT" ->
         USBD_LL_OpenEP(s, COMMAND_EP_ADDRESS, EndpointDescriptor_INTERRUPT,
                        MAX_COMMAND_EP_PACKET_SIZE)
    [] event.eventType = "CLASS_DEINIT" ->
         USBD_LL_CloseEP(s, COMMAND_EP_ADDRESS)
    [] event.eventType = "CLASS_SETUP" ->
         onCdcSetup(s, event, fill)
    [] OTHER -> [s EXCEPT !._opCode = 0]

\* onEvent answering the control event it receives back from the sender
onEvent_AnswersControlEvent(s, event, fill) ==
  CASE event.eventType = "CLASS_INIT" ->
         USBD_LL_OpenEP(s, COMMAND_EP_ADDRESS, EndpointDescriptor_INTERRUPT,
                        MAX_COMMAND_EP_PACKET_SIZE)
    [] event.eventType = "CLASS_DEINIT" ->
         USBD_LL_CloseEP(s, COMMAND_EP_ADDRESS)
    [] event.eventType = "CLASS_SETUP" ->
         onCdcSetup(s, event, fill)
    [] event.eventType = "CDC_CONTROL" /\ "size" \in DOMAIN event ->
         USBD_CtlSendData(s, "_commandBuffer", event.size)
    [] OTHER -> s

onEvent(s, event, fill) ==
  CASE event.eventType = "CLASS_INIT" ->
         USBD_LL_OpenEP(s, COMMAND_EP_ADDRESS, EndpointDescriptor_INTERRUPT,
                        MAX_COMMAND_EP_PACKET_SIZE)
    [] event.eventType = "CLASS_DEINIT" ->
         USBD_LL_CloseEP(s, COMMAND_EP_ADDRESS)
    [] event.eventType = "CLASS_SETUP" ->
         onCdcSetup(s, event, fill)
    [] OTHER -> s

\* RecursiveBoolInitWithParams<CdcDevice,Features...>::tinit from feature i on
RECURSIVE tinit(_, _, _)
tinit(s, ok, i) ==
  IF i > NumFeatures THEN [s EXCEPT !.returned = TRUE]
  ELSE LET s1 == Call(s, [op |-> "initialise", step |-> 2 + i])
       IN  IF ~ok[2 + i] THEN [s1 EXCEPT !.returned = FALSE]
           ELSE tinit(s1, ok, i + 1)

\* the condition of the if at the head of initialise, left to right
InitialiseUpwards(s, ok) ==
  LET s1 == Call(s, [op |-> "initialise", step |-> 1])
  IN  IF ~ok[1] THEN [s1 EXCEPT !.returned = FALSE]
      ELSE LET s2 == Call(s1, [op |-> "initialise", step |-> 2])
           IN  IF ~ok[2] THEN [s2 EXCEPT !.returned = FALSE]
               ELSE tinit(s2, ok, 1)

\* initialise setting up the descriptor before it initialises upwards
initialise_DescriptorFirst(s, params, ok) ==
  LET up == InitialiseUpwards(
              [s EXCEPT !._configurationDescriptor =
                 [bEndpointAddress |-> COMMAND_EP_ADDRESS,
                  bmAttributes |-> EndpointDescriptor_INTERRUPT,
                  wMaxPacketSize |-> MAX_COMMAND_EP_PACKET_SIZE,
                  bInterval |-> ToUint8(params.cdc_cmd_poll_interval)]], ok)
  IN  IF up.returned = FALSE THEN up ELSE USBD_RegisterClass(up)

\* initialise setting up the descriptor the first time only
initialise_KeepsDescriptor(s, params, ok) ==
  LET up == InitialiseUpwards(s, ok)
  IN  IF up.returned = FALSE THEN up
      ELSE IF up.registered THEN USBD_RegisterClass(up)
      ELSE USBD_RegisterClass(
             [up EXCEPT !._configurationDescriptor =
                [bEndpointAddress |-> COMMAND_EP_ADDRESS,
                 bmAttributes |-> EndpointDescriptor_INTERRUPT,
                 wMaxPacketSize |-> MAX_COMMAND_EP_PACKET_SIZE,
                 bInterval |-> ToUint8(params.cdc_cmd_poll_interval)]])

\* initialise linking the class into the SDK before it sets up the descriptor
initialise_RegistersFirst(s, params, ok) ==
  LET up == InitialiseUpwards(s, ok)
  IN  IF up.returned = FALSE THEN up
      ELSE [USBD_RegisterClass(up) EXCEPT !._configurationDescriptor =
              [bEndpointAddress |-> COMMAND_EP_ADDRESS,
               bmAttributes |-> EndpointDescriptor_INTERRUPT,
               wMaxPacketSize |-> MAX_COMMAND_EP_PACKET_SIZE,
               bInterval |-> ToUint8(params.cdc_cmd_poll_interval)]]

initialise(s, params, ok) ==
  LET up == InitialiseUpwards(s, ok)
  IN  IF up.returned = FALSE THEN up
      ELSE USBD_RegisterClass(
             [up EXCEPT !._configurationDescriptor =
                [bEndpointAddress |-> COMMAND_EP_ADDRESS,
                 bmAttributes |-> EndpointDescriptor_INTERRUPT,
                 wMaxPacketSize |-> MAX_COMMAND_EP_PACKET_SIZE,
                 bInterval |-> ToUint8(params.cdc_cmd_poll_interval)]])

\* the subscriber's choice is an input only where a subscriber is handed the buffer
FillsFor(request) ==
  IF IsClassRequest(request) /\ IsDeviceToHost(request) /\ request.wLength # 0
  THEN FillBytes ELSE {0}

\* the destructor keeping the subscription
Destructor_KeepsSubscription(s) == s

\* ~CdcDevice
Destructor(s) == removeSubscriber(s, OnEventSlot)

\* the constructor's body on the members as found
Constructor(s) == insertSubscriber([s EXCEPT !._opCode = 0], OnEventSlot)

\* UsbEventSender delivering an event of the SDK: it calls the slots it holds
Dispatch(s, event, fill) ==
  IF OnEventSlot \in s.subscribers
  THEN onEvent([s EXCEPT !.delivered = TRUE], event, fill)
  ELSE s

----------------------------------------------------------------------------
(* The state after the constructor: _opCode = 0, everything else as found *)

Init ==
  /\ \E d \in UninitDescriptors, op \in UninitBytes, size \in UninitBytes,
        buffer \in UninitBuffers :
       \E s \in {Constructor([_configurationDescriptor |-> d, _opCode |-> op,
                               _commandSize |-> size, _commandBuffer |-> buffer,
                               registered |-> FALSE, openEndpoints |-> {},
                               subscribers |-> {}, delivered |-> FALSE,
                               trace |-> <<>>, returned |-> "void"])} :
         /\ _configurationDescriptor = s._configurationDescriptor
         /\ _opCode = s._opCode
         /\ _commandSize = s._commandSize
         /\ _commandBuffer = s._commandBuffer
         /\ registered = s.registered
         /\ openEndpoints = s.openEndpoints
         /\ subscribers = s.subscribers
         /\ trace = s.trace
         /\ returned = s.returned
  /\ last = [op |-> "CdcDevice"]
  /\ lastLifecycle = "none"
  /\ alive = TRUE
  /\ lastH2D = <<>>

Initialise ==
  /\ alive
  /\ \E interval \in PollIntervals, ok \in [InitSteps -> BOOLEAN] :
       \E s \in {initialise(This, [cdc_cmd_poll_interval |-> interval], ok)} :
         /\ Commit(s)
         /\ last' = [op |-> "initialise", interval |-> interval, ok |-> ok,
                     again |-> registered]
  /\ UNCHANGED <<lastLifecycle, alive, lastH2D>>

\* the SDK calls the class callbacks of a registered class only
ClassInit ==
  /\ registered
  /\ LET event == [eventType |-> "CLASS_INIT"]
     IN  \E s \in {Dispatch(This, event, 0)} :
           /\ Commit(s)
           /\ last' = IF s.delivered
                      THEN [op |-> "onEvent", event |-> event, was |-> lastLifecycle]
                      ELSE [op |-> "noHandler", event |-> event]
           /\ lastLifecycle' = IF s.delivered THEN "CLASS_INIT" ELSE lastLifecycle
  /\ UNCHANGED <<alive, lastH2D>>

ClassDeinit ==
  /\ registered
  /\ LET event == [eventType |-> "CLASS_DEINIT"]
     IN  \E s \in {Dispatch(This, event, 0)} :
           /\ Commit(s)
           /\ last' = IF s.delivered
                      THEN [op |-> "onEvent", event |-> event, was |-> lastLifecycle]
                      ELSE [op |-> "noHandler", event |-> event]
           /\ lastLifecycle' = IF s.delivered THEN "CLASS_DEINIT" ELSE lastLifecycle
  /\ UNCHANGED <<alive, lastH2D>>

ClassSetup ==
  /\ registered
  /\ \E request \in Requests :
     \E fill \in FillsFor(request) :
       LET event == [eventType |-> "CLASS_SETUP", request |-> request]
       IN  \E s \in {Dispatch(This, event, fill)} :
             /\ Commit(s)
             /\ last' = IF s.delivered
                        THEN [op |-> "onEvent", event |-> event, fill |-> fill]
                        ELSE [op |-> "noHandler", event |-> event]
             /\ lastH2D' = IF /\ s.delivered
                              /\ IsClassRequest(request)
                              /\ request.wLength # 0
                              /\ ~IsDeviceToHost(request)
                           THEN <<request>> ELSE lastH2D
  /\ UNCHANGED <<lastLifecycle, alive>>

OtherEvent ==
  /\ \E type \in OtherEventTypes :
       LET event == [eventType |-> type]
       IN  \E s \in {Dispatch(This, event, 0)} :
             /\ Commit(s)
             /\ last' = [op |-> IF s.delivered THEN "onEvent" ELSE "noHandler",
                         event |-> event]
  /\ UNCHANGED <<lastLifecycle, alive, lastH2D>>

DestroyObject ==
  /\ alive
  /\ Commit(Destructor(This))
  /\ last' = [op |-> "~CdcDevice"]
  /\ alive' = FALSE
  /\ UNCHANGED <<lastLifecycle, lastH2D>>

Next ==
  \/ Initialise
  \/ ClassInit
  \/ ClassDeinit
  \/ ClassSetup
  \/ OtherEvent
  \/ DestroyObject

Spec == Init /\ [][Next]_vars

----------------------------------------------------------------------------
(* What the last operation was, and what it did *)

HandledSetup == last.op = "onEvent" /\ last.event.eventType = "CLASS_SETUP"
HandledClassSetup == HandledSetup /\ IsClassRequest(last.event.request)
HandledDeviceToHost ==
  HandledClassSetup /\ last.event.request.wLength > 0 /\ IsDeviceToHost(last.event.request)
HandledHostToDevice ==
  HandledClassSetup /\ last.event.request.wLength > 0 /\ ~IsDeviceToHost(last.event.request)
HandledNoData == HandledClassSetup /\ last.event.request.wLength = 0

EndpointPrimitives ==
  {"USBD_LL_OpenEP", "USBD_LL_CloseEP", "USBD_CtlSendData", "USBD_CtlPrepareRx"}

Calls(t, name) == SelectSeq(t, LAMBDA c : c.op = name)

----------------------------------------------------------------------------
(* C1: a device-to-host class request with wLength > 0 raises exactly one
   CdcControlEvent carrying bRequest, the command buffer and wLength, the
   buffer holds at least wLength bytes, and the event with all its subscriber
   handling comes strictly before the one USBD_CtlSendData call, which is
   made with the same buffer and the same length. *)
C1_EventThenSendWithinBuffer ==
  HandledDeviceToHost =>
    LET request == last.event.request
        raised == Calls(trace, "raiseEvent")
        sent == Calls(trace, "USBD_CtlSendData")
    IN  /\ Len(raised) = 1
        /\ raised[1].event = CdcControlEvent(request.bRequest, "_commandBuffer", request.wLength)
        /\ MAX_COMMAND_EP_PACKET_SIZE >= raised[1].event.size
        /\ Len(sent) = 1
        /\ trace[Len(trace)] = sent[1]
        /\ \A i \in 1..(Len(trace) - 1) : trace[i].op \in {"raiseEvent", "deliver"}
        /\ sent[1].buf = raised[1].event.data
        /\ sent[1].len = request.wLength

(* C2: a host-to-device class request with wLength > 0 raises no event, calls
   no send, and arms exactly one receive into the command buffer for exactly
   wLength bytes. *)
C2_ArmsOneReceive ==
  HandledHostToDevice =>
    trace = <<[op |-> "USBD_CtlPrepareRx", buf |-> "_commandBuffer",
               len |-> last.event.request.wLength]>>

C2_Witness ==
  /\ HandledHostToDevice
  /\ last.event.request.wLength = 256
  /\ Len(Calls(trace, "USBD_CtlPrepareRx")) = 1

(* C3: after a host-to-device class request with nonzero wLength the pending
   op code is the request's bRequest and the pending length is the request's
   wLength exactly as given. *)
C3_PendingRecordedExactly ==
  HandledHostToDevice =>
    /\ _opCode = last.event.request.bRequest
    /\ _commandSize = last.event.request.wLength

(* C4: a class request with wLength = 0, in either direction, raises exactly
   one CdcControlEvent carrying bRequest with a null payload and length 0,
   calls no endpoint primitive, and leaves the pending op code and the
   pending length as they were. *)
C4_NoDataNotifiesOnly ==
  [][HandledNoData' =>
       /\ Len(Calls(trace', "raiseEvent")) = 1
       /\ Calls(trace', "raiseEvent")[1].event =
            CdcControlEvent(last'.event.request.bRequest, "nullptr", 0)
       /\ \A i \in 1..Len(trace') : trace'[i].op \notin EndpointPrimitives
       /\ UNCHANGED <<_opCode, _commandSize>>]_vars

C4_Witness ==
  /\ HandledNoData
  /\ IsDeviceToHost(last.event.request)
  /\ _opCode # last.event.request.bRequest
  /\ Len(Calls(trace, "raiseEvent")) = 1

(* C5: the pending length a host-to-device request leaves in _commandSize
   is at most the command buffer capacity of 16 bytes. *)
C5_PendingLengthWithinCapacity ==
  HandledHostToDevice => MAX_COMMAND_EP_PACKET_SIZE >= _commandSize

(* C6: no class request, in either direction, makes the driver call the send
   primitive or the arm-receive primitive on the command buffer with a length
   greater than the buffer's 16 bytes. *)
C6_NoTransferBeyondBuffer ==
  \A i \in 1..Len(trace) :
    trace[i].op \in {"USBD_CtlSendData", "USBD_CtlPrepareRx"} =>
      MAX_COMMAND_EP_PACKET_SIZE >= trace[i].len

(* C7: a setup request whose type bits are not the class type changes
   neither the pending op code, the pending length, the command buffer nor
   the configuration descriptor, raises no event and calls no endpoint
   primitive, whatever its direction bit and wLength. *)
C7_NonClassRequestIgnored ==
  [][(HandledSetup' /\ ~IsClassRequest(last'.event.request)) =>
       /\ UNCHANGED <<_opCode, _commandSize, _commandBuffer, _configurationDescriptor>>
       /\ trace' = <<>>]_vars

C7_Witness ==
  /\ HandledSetup
  /\ last.event.request = [bmRequest |-> 128, bRequest |-> 33, wLength |-> 7]
  /\ trace = <<>>

(* C8: every CLASS_INIT event makes exactly one USBD_LL_OpenEP call with the
   command endpoint address IN | 1, the interrupt type and packet size 16,
   every CLASS_DEINIT event exactly one USBD_LL_CloseEP call with that
   address, also when the event repeats the one before it, and the handler
   reports nothing. *)
C8_OneOpenPerInitOneClosePerDeinit ==
  /\ (last.op = "onEvent" /\ last.event.eventType = "CLASS_INIT") =>
       /\ trace = <<[op |-> "USBD_LL_OpenEP", addr |-> 129,
                     type |-> EndpointDescriptor_INTERRUPT, mps |-> 16]>>
       /\ returned = "void"
  /\ (last.op = "onEvent" /\ last.event.eventType = "CLASS_DEINIT") =>
       /\ trace = <<[op |-> "USBD_LL_CloseEP", addr |-> 129]>>
       /\ returned = "void"

C8_Witness ==
  /\ last.op = "onEvent"
  /\ last.event.eventType = "CLASS_INIT"
  /\ last.was = "CLASS_INIT"
  /\ Len(Calls(trace, "USBD_LL_OpenEP")) = 1

(* C9: the notification endpoint is open exactly when the most recent of the
   CLASS_INIT and CLASS_DEINIT events was a CLASS_INIT, and no event of
   another type changes whether it is open. *)
C9_OpenIffClassInitialised ==
  /\ []((COMMAND_EP_ADDRESS \in openEndpoints) <=> (lastLifecycle = "CLASS_INIT"))
  /\ [][(last'.op = "onEvent" /\ last'.event.eventType \notin {"CLASS_INIT", "CLASS_DEINIT"})
          => UNCHANGED openEndpoints]_vars

C9_Witness ==
  /\ HandledSetup
  /\ lastLifecycle = "CLASS_DEINIT"
  /\ COMMAND_EP_ADDRESS \notin openEndpoints
  /\ Len(trace) > 0

(* C10: initialise returns true exactly when every upstream step succeeds;
   the steps are called in their fixed order up to the first that fails and
   none after it; when it returns false the configuration descriptor is not
   written and the class is not registered. *)
C10_InitialiseShortCircuits ==
  [][(last'.op = "initialise") =>
       LET ok == last'.ok
           steps == Calls(trace', "initialise")
           failing == {i \in InitSteps : ~ok[i]}
           firstFailing == CHOOSE i \in failing : \A j \in failing : i <= j
       IN  /\ returned' \in BOOLEAN
           /\ (returned' = TRUE) <=> (failing = {})
           /\ Len(steps) = IF failing = {} THEN 2 + NumFeatures ELSE firstFailing
           /\ \A i \in 1..Len(steps) : steps[i].step = i
           /\ (returned' = FALSE) =>
                /\ UNCHANGED <<_configurationDescriptor, registered>>
                /\ Calls(trace', "USBD_RegisterClass") = <<>>]_vars

C10_Witness ==
  /\ last.op = "initialise"
  /\ last.ok[1] /\ last.ok[2] /\ last.ok[3] /\ ~last.ok[4]
  /\ returned = FALSE
  /\ ~registered
  /\ Len(trace) = 4

----------------------------------------------------------------------------
\* the command endpoint fragment as initialise writes it for a poll interval
Populated(interval) ==
  [bEndpointAddress |-> 129, bmAttributes |-> EndpointDescriptor_INTERRUPT,
   wMaxPacketSize |-> 16, bInterval |-> interval]

(* C11: every successful initialise leaves the command endpoint fragment
   rewritten from the parameters of that call (address IN | 1, interrupt,
   packet size 16, interval = cdc_cmd_poll_interval), so a successful
   initialise that directly follows a successful one with the same
   parameters leaves the descriptor as it was. *)
C11_ReinitialiseRewritesDescriptor ==
  [][(last'.op = "initialise" /\ returned' = TRUE) =>
       /\ _configurationDescriptor' = Populated(last'.interval)
       /\ (last.op = "initialise" /\ returned = TRUE /\ last.interval = last'.interval)
            => UNCHANGED _configurationDescriptor]_vars

C11_Witness ==
  /\ last.op = "initialise"
  /\ last.again
  /\ returned = TRUE
  /\ last.interval = 1
  /\ _configurationDescriptor = Populated(1)

(* C12: the descriptor's four command endpoint fields are written before the
   class is linked into the SDK and before initialise returns true, and no
   event handled afterwards, with the events it raises, changes any of
   them. *)
C12_DescriptorPopulatedThenImmutable ==
  /\ [](\A i \in 1..Len(trace) :
          trace[i].op = "USBD_RegisterClass" =>
            trace[i].descriptor = Populated(last.interval))
  /\ [](registered => \E interval \in PollIntervals :
                         _configurationDescriptor = Populated(interval))
  /\ [][(registered /\ last'.op = "onEvent") => UNCHANGED _configurationDescriptor]_vars

C12_Witness ==
  /\ registered
  /\ HandledDeviceToHost
  /\ Len(Calls(trace, "raiseEvent")) = 1
  /\ _configurationDescriptor = Populated(1)

(* C13: the pending op code and the pending length are those of the most
   recent host-to-device class request with nonzero wLength (op code 0 when
   there has been none since construction), and such a request replaces them
   and arms the receive again without raising an event or reporting
   anything. *)
C13_PendingIsMostRecentRequest ==
  /\ (Len(lastH2D) = 0) => (_opCode = 0)
  /\ (Len(lastH2D) = 1) =>
       /\ _opCode = lastH2D[1].bRequest
       /\ _commandSize = lastH2D[1].wLength
  /\ HandledHostToDevice =>
       /\ trace = <<[op |-> "USBD_CtlPrepareRx", buf |-> "_commandBuffer",
                     len |-> last.event.request.wLength]>>
       /\ returned = "void"

(* C14: for a device-to-host class request with wLength > 0 the bytes handed
   to USBD_CtlSendData are exactly the first wLength bytes of the command
   buffer as the subscriber wrote them while this event was dispatched, and
   the send is the last thing the same handler invocation does. *)
C14_SendsSubscriberPayload ==
  HandledDeviceToHost =>
    LET sent == Calls(trace, "USBD_CtlSendData")
        n == last.event.request.wLength
    IN  /\ Len(sent) = 1
        /\ trace[Len(trace)] = sent[1]
        /\ trace[Len(trace) - 1] =
             [op |-> "deliver", to |-> "subscriber",
              event |-> CdcControlEvent(last.event.request.bRequest, "_commandBuffer", n)]
        /\ Len(sent[1].bytes) = n
        /\ \A i \in 1..n : sent[1].bytes[i] = last.fill /\ _commandBuffer[i] = last.fill

\* the three things onCdcSetup does for a class request, as seen in a trace
ActNotify(t) ==
  /\ Len(Calls(t, "raiseEvent")) = 1
  /\ Calls(t, "raiseEvent")[1].event.data = "nullptr"
  /\ \A i \in 1..Len(t) : t[i].op \notin EndpointPrimitives

ActRespond(t) ==
  /\ Len(Calls(t, "raiseEvent")) = 1
  /\ Calls(t, "raiseEvent")[1].event.data = "_commandBuffer"
  /\ Len(Calls(t, "USBD_CtlSendData")) = 1
  /\ t[Len(t)].op = "USBD_CtlSendData"
  /\ Len(Calls(t, "USBD_CtlPrepareRx")) = 0

ActReceive(t) ==
  /\ Len(Calls(t, "raiseEvent")) = 0
  /\ Len(Calls(t, "USBD_CtlPrepareRx")) = 1
  /\ Len(Calls(t, "USBD_CtlSendData")) = 0

(* C15: for every class request onCdcSetup does exactly one of: raise an
   event without payload; raise an event and then send; note the command
   and arm the receive.  Which one depends only on wLength = 0 and on the
   direction bit, and the three cases exclude each other and cover every
   request. *)
C15_ExactlyOneOfThreeActions ==
  HandledClassSetup =>
    LET request == last.event.request
    IN  /\ ActNotify(trace) <=> (request.wLength = 0)
        /\ ActRespond(trace) <=> (request.wLength # 0 /\ IsDeviceToHost(request))
        /\ ActReceive(trace) <=> (request.wLength # 0 /\ ~IsDeviceToHost(request))
        /\ ActReceive(trace) =>
             /\ _opCode = ToUint8(request.bRequest)
             /\ _commandSize = ToUint8(request.wLength)

C15_Witness ==
  /\ HandledNoData
  /\ IsDeviceToHost(last.event.request)
  /\ ActNotify(trace)
  /\ ~ActRespond(trace)

(* C16: an event whose type is none of CLASS_INIT, CLASS_DEINIT and
   CLASS_SETUP makes onEvent call no endpoint primitive and raise no event,
   and leaves the pending op code, the pending length, the command buffer
   and the configuration descriptor as they were. *)
C16_OtherEventsIgnored ==
  [][(last'.op = "onEvent" /\
      last'.event.eventType \notin {"CLASS_INIT", "CLASS_DEINIT", "CLASS_SETUP"}) =>
       /\ trace' = <<>>
       /\ UNCHANGED <<_opCode, _commandSize, _commandBuffer, _configurationDescriptor>>]_vars

C16_Witness ==
  /\ last.op = "onEvent"
  /\ last.event.eventType = "CDC_CONTROL"
  /\ _opCode # 0
  /\ trace = <<>>

(* C17: onEvent is subscribed to the event sender exactly while the object
   lives, also after an initialise that returned false; an event reaches
   the handler when it is sent between construction and destruction and
   does not reach it after destruction. *)
C17_SubscribedDuringLifetime ==
  /\ alive <=> (OnEventSlot \in subscribers)
  /\ (last.op = "onEvent") => alive
  /\ (last.op = "noHandler") => ~alive
  /\ (last.op = "initialise" /\ returned = FALSE) => (OnEventSlot \in subscribers)

C17_Witness ==
  /\ ~alive
  /\ last.op = "noHandler"
  /\ last.event.eventType = "CLASS_SETUP"
  /\ trace = <<>>

(* C18: one event handled by onEvent raises at most one CdcControlEvent and
   makes at most one endpoint call; each event raised is delivered back to
   the driver's own onEvent, which does nothing with it, and then to the
   subscriber. *)
C18_NoNestedDispatch ==
  (last.op = "onEvent") =>
    /\ Len(Calls(trace, "raiseEvent")) <= 1
    /\ Cardinality({i \in 1..Len(trace) : trace[i].op \in EndpointPrimitives}) <= 1
    /\ \A i \in 1..Len(trace) :
         trace[i].op = "raiseEvent" =>
           /\ i + 2 <= Len(trace)
           /\ trace[i + 1] = [op |-> "deliver", to |-> OnEventSlot, event |-> trace[i].event]
           /\ trace[i + 2] = [op |-> "deliver", to |-> "subscriber", event |-> trace[i].event]

C18_Witness ==
  /\ HandledDeviceToHost
  /\ Len(trace) = 4
  /\ trace[2].to = OnEventSlot

(* C19: only a host-to-device class request with nonzero wLength writes the
   pending op code and the pending length; every other event handled leaves
   them as they were, so a recorded request keeps them across such events
   while a device-to-host request may overwrite the command buffer. *)
C19_PendingWrittenOnlyByHostToDevice ==
  [][(last'.op = "onEvent" /\ ~HandledHostToDevice') =>
       UNCHANGED <<_opCode, _commandSize>>]_vars

C19_Witness ==
  /\ Len(lastH2D) = 1
  /\ HandledDeviceToHost
  /\ _opCode = lastH2D[1].bRequest
  /\ _opCode # last.event.request.bRequest
  /\ _commandSize = 7
  /\ _commandBuffer[1] = last.fill

====
